---- MODULE Spec2Model ----
(***************************************************************************)
(* Background input delivery engine of Game_Script.                        *)
(*                                                                         *)
(* BackgroundWindows (src/background_windows.py) delivers clicks to a      *)
(* bound window either by posting window messages ('postmessage') or by    *)
(* moving the real cursor and injecting button events ('sendinput',        *)
(* IndependentMouse.click_background_fallback in                           *)
(* src/independent_mouse.py).  Spec models one caller that runs whole      *)
(* operations one after the other; SpecConc models several threads inside  *)
(* click_background_fallback, one statement per step; SpecTouch models     *)
(* several threads inside touch, one attribute access per step;            *)
(* SpecDisplay models the display list of VirtualDisplayManager            *)
(* (src/virtual_display.py), the window moves of GameWindowManager         *)
(* (src/game_window_manager.py) and the target display of                  *)
(* IndependentMouse.send_mouse_input, one operation per step;              *)
(* SpecRegistry models the window cache of GameWindowManager, one          *)
(* operation per step.                                                     *)
(***************************************************************************)
EXTENDS Integers, Sequences, FiniteSets, TLC

VARIABLES
    click_method,            \* per binding: "postmessage" | "sendinput"
    postmessage_fail_count,  \* per binding: the PostMessage failure counter
    cursor,                  \* the position of the real (system) cursor
    last,                    \* what the most recent operation did and returned
    failRun,                 \* history: failed message clicks since the last successful one
    escalations,             \* history: how often click_method went postmessage -> sendinput
    thread,                  \* SpecConc: each thread's place in click_background_fallback;
                             \* SpecTouch: each thread's place in touch
    osRejected,              \* SpecConc: history, some OS call was rejected
    vdm,                     \* virtual_display_manager: displays, main_display, virtual_display
    independent_mouse,       \* independent_mouse: target_display, main_display, virtual_display
    window_rect,             \* per window handle: the rectangle GetWindowRect reports
    window_display,          \* per binding: BackgroundWindows.window_display
    is_virtual_screen,       \* per binding: BackgroundWindows.is_virtual_screen
    foreground,              \* the window the OS has in the foreground
    lastD,                   \* what the most recent display or window operation did
    desktop,                 \* the windows of the OS, in EnumWindows order
    game_windows,            \* game_window_manager.game_windows, in insertion order
    lastR                    \* what the most recent registry operation did

vars == <<click_method, postmessage_fail_count, cursor, last, failRun, escalations,
          thread, osRejected, vdm, independent_mouse, window_rect, window_display,
          is_virtual_screen, foreground, lastD, desktop, game_windows, lastR>>

inputVars == <<click_method, postmessage_fail_count, cursor, last, failRun, escalations,
               thread, osRejected>>
displayVars == <<vdm, independent_mouse, window_rect, window_display,
                 is_virtual_screen, foreground, lastD>>

registryVars == <<desktop, game_windows, lastR>>

bindingVars == <<click_method, postmessage_fail_count, last, failRun, escalations>>
threadVars == <<thread, osRejected>>

(***************************************************************************)
(* Bounds and the environment the operations run in.                       *)
(***************************************************************************)
NumThreads == 2
MaxTextLen == 2
MaxClientSize == 6

\* One BackgroundWindows instance per bound window.
Bindings == {1, 2}
Threads == 1..NumThreads

\* BackgroundWindows.__init__: self.max_postmessage_failures = 3
max_postmessage_failures == 3

\* independent_mouse.py imports win32gui, win32con, win32api, ctypes, logging,
\* wintypes and virtual_display_manager: the name `time` is not bound in the module.
TimeImported == FALSE

\* Where the user left the real cursor.
UserPos == <<1, 1>>

\* Positions handed to touch (screen points for a top-level window, client
\* points for an embedded one).
Points == {<<5, 4>>, <<-1, 9>>}

\* init_hwnd: a window with a parent is embedded.  Even bindings are bound to
\* embedded windows, odd ones to top-level windows.
is_embedded(b) == b % 2 = 0

\* What the OS reports for the bound window: GetWindowRect's origin, the
\* screen position of the client area's origin (ScreenToClient), and
\* GetClientRect's size.
WindowGeometry(b) ==
    [window_left |-> 2, window_top |-> 1,
     client_left |-> 3, client_top |-> 3,
     client_width |-> 6, client_height |-> 5]

Max(a, b) == IF a >= b THEN a ELSE b
Min(a, b) == IF a <= b THEN a ELSE b

(***************************************************************************)
(* touch: resolving the click point (background_windows.py 294-323).       *)
(***************************************************************************)
\* Lines 295-312: an embedded window takes the point as client coordinates;
\* otherwise ScreenToClient, or the window-origin subtraction when it raises.
ToClient(b, pos, s2cFails) ==
    LET g == WindowGeometry(b) IN
    IF is_embedded(b) THEN pos
    ELSE IF ~s2cFails THEN <<pos[1] - g.client_left, pos[2] - g.client_top>>
    ELSE <<pos[1] - g.window_left, pos[2] - g.window_top>>

\* Mutant: the upper limit is the size itself, as in
\* _get_embedded_window_coords, which touch does not call.
ClampAxis_Inclusive(c, size) == Max(0, Min(c, size))

\* Lines 315-321: a component outside [0, size) becomes max(0, min(c, size - 1)).
ClampAxis(c, size) ==
    IF c < 0 \/ c >= size THEN Max(0, Min(c, size - 1)) ELSE c

ResolveClient(b, pos, s2cFails) ==
    LET g == WindowGeometry(b)
        c == ToClient(b, pos, s2cFails)
    IN <<ClampAxis(c[1], g.client_width), ClampAxis(c[2], g.client_height)>>

\* _send_input_mouse, lines 481-487: a client point is taken to the screen by
\* adding the origin of the window's rectangle (GetWindowRect).
ToScreen(b, client) ==
    LET g == WindowGeometry(b) IN
    <<g.window_left + client[1], g.window_top + client[2]>>

\* _get_screen_coords: a list or tuple is returned as it is.
GetScreenCoords(pos) == pos

(***************************************************************************)
(* _send_click_message (background_windows.py 395-437).                    *)
(***************************************************************************)
RECURSIVE BitOr(_, _)
\* Python's a | b on non-negative integers.
BitOr(a, b) ==
    IF a = 0 THEN b
    ELSE IF b = 0 THEN a
    ELSE 2 * BitOr(a \div 2, b \div 2) + (IF a % 2 = 1 \/ b % 2 = 1 THEN 1 ELSE 0)

\* Mutant: the two coordinates are packed the wrong way round.
MakeLParam_Swapped(x, y) == BitOr(x * 65536, y)

\* l_param = y << 16 | x
MakeLParam(x, y) == BitOr(y * 65536, x)

Msg(m, w, l) == [msg |-> m, wparam |-> w, lparam |-> l]

\* The PostMessage calls of one click, in program order.
ClickMessages(client, right_click) ==
    LET l_param == MakeLParam(client[1], client[2]) IN
    << Msg("WM_MOUSEMOVE", "0", l_param),
       IF right_click THEN Msg("WM_RBUTTONDOWN", "MK_RBUTTON", l_param)
                      ELSE Msg("WM_LBUTTONDOWN", "MK_LBUTTON", l_param),
       IF right_click THEN Msg("WM_RBUTTONUP", "0", l_param)
                      ELSE Msg("WM_LBUTTONUP", "0", l_param),
       Msg("WM_MOUSELEAVE", "0", 0) >>

\* Mutant: a raising PostMessage is swallowed and the click reports success.
SendClickMessage_AlwaysOk(client, right_click, postFail) ==
    LET all == ClickMessages(client, right_click) IN
    [ok |-> TRUE,
     posts |-> IF postFail = 0 THEN all ELSE SubSeq(all, 1, postFail - 1)]

\* postFail = 0: every PostMessage is accepted; postFail = k: the k-th one
\* raises, the ones before it were posted, the except clause returns False.
SendClickMessage(client, right_click, postFail) ==
    LET all == ClickMessages(client, right_click) IN
    [ok |-> postFail = 0,
     posts |-> IF postFail = 0 THEN all ELSE SubSeq(all, 1, postFail - 1)]

(***************************************************************************)
(* IndependentMouse.click_background_fallback (independent_mouse.py        *)
(* 445-492), as one call.  hwFail names the OS call of the try block that  *)
(* raises ("none": the OS accepts them all); restoreFail says whether the  *)
(* SetCursorPos of the except clause raises.                               *)
(***************************************************************************)
\* The calls after time.sleep are reached only when time.sleep completes.
HwFailPoints ==
    {"none", "GetCursorPos", "SetCursorPos", "button_down"}
        \cup (IF TimeImported THEN {"button_up", "restore"} ELSE {})

Call(c, p, f, o) == [call |-> c, pt |-> p, flag |-> f, ok |-> o]

ButtonDownFlag(right_click) ==
    IF right_click THEN "MOUSEEVENTF_RIGHTDOWN" ELSE "MOUSEEVENTF_LEFTDOWN"
ButtonUpFlag(right_click) ==
    IF right_click THEN "MOUSEEVENTF_RIGHTUP" ELSE "MOUSEEVENTF_LEFTUP"

\* The statements of the try block in order, each with whether it completes.
\* A statement that raises ends the block.
TryBlock(cur, target, right_click, hwFail) ==
    LET s1 == <<Call("GetCursorPos", cur, "", hwFail # "GetCursorPos")>>
        s2 == <<Call("SetCursorPos", target, "", hwFail # "SetCursorPos")>>
        s3 == <<Call("mouse_event", target, ButtonDownFlag(right_click),
                     hwFail # "button_down")>>
        s4 == <<Call("time.sleep", target, "", TimeImported)>>
        s5 == <<Call("mouse_event", target, ButtonUpFlag(right_click),
                     hwFail # "button_up")>>
        s6 == <<Call("SetCursorPos", cur, "", hwFail # "restore")>>
    IN  IF ~s1[1].ok THEN s1
        ELSE IF ~s2[1].ok THEN s1 \o s2
        ELSE IF ~s3[1].ok THEN s1 \o s2 \o s3
        ELSE IF ~s4[1].ok THEN s1 \o s2 \o s3 \o s4
        ELSE IF ~s5[1].ok THEN s1 \o s2 \o s3 \o s4 \o s5
        ELSE s1 \o s2 \o s3 \o s4 \o s5 \o s6

\* Mutant: the except clause returns False without restoring the cursor.
ExceptBlock_NoRestore(cur, tried, restoreFail) == <<>>

\* The except clause: SetCursorPos(original_pos) inside try/except: pass.
\* When GetCursorPos raised, original_pos is unbound and the NameError is
\* swallowed before any OS call.
ExceptBlock(cur, tried, restoreFail) ==
    IF tried[Len(tried)].ok THEN <<>>
    ELSE IF ~tried[1].ok THEN <<>>
    ELSE <<Call("SetCursorPos", cur, "", ~restoreFail)>>

\* The cursor after a sequence of calls: each accepted SetCursorPos moves it.
RECURSIVE CursorAfter(_, _)
CursorAfter(cur, calls) ==
    IF calls = <<>> THEN cur
    ELSE CursorAfter(IF calls[1].call = "SetCursorPos" /\ calls[1].ok
                        THEN calls[1].pt ELSE cur,
                     Tail(calls))

click_background_fallback(cur, target, right_click, hwFail, restoreFail) ==
    LET tried == TryBlock(cur, target, right_click, hwFail)
        log == tried \o ExceptBlock(cur, tried, restoreFail)
    IN  [ok |-> tried[Len(tried)].ok,
         log |-> log,
         cursor |-> CursorAfter(cur, log)]

\* Mutant: the retry's result is dropped and the click reports success.
SendInputClick_AlwaysTrue(cur, target, right_click, hwFail, restoreFail) ==
    [click_background_fallback(cur, target, right_click, hwFail, restoreFail)
        EXCEPT !.ok = TRUE]

\* _send_input_click (background_windows.py 439-455): the shared controller's
\* click_background_fallback; an exception from it would be turned into False.
SendInputClick(cur, target, right_click, hwFail, restoreFail) ==
    click_background_fallback(cur, target, right_click, hwFail, restoreFail)

(***************************************************************************)
(* What an operation leaves for inspection: its arguments, the state it    *)
(* started from, the OS calls it made and what it returned.                *)
(***************************************************************************)
NoCall ==
    [op |-> "none", b |-> 0, path |-> "none",
     methodBefore |-> "postmessage", countBefore |-> 0, cursorBefore |-> UserPos,
     pos |-> UserPos, right_click |-> FALSE, client |-> <<0, 0>>,
     postAttempted |-> FALSE, posts |-> <<>>,
     hwCalls |-> 0, hwTarget |-> UserPos, hwLog |-> <<>>, hwOk |-> FALSE,
     ret |-> FALSE, raised |-> FALSE, delegated |-> FALSE, recorded |-> FALSE,
     key |-> "", text |-> <<>>]

(***************************************************************************)
(* BackgroundWindows.touch with a window handle bound                      *)
(* (background_windows.py 263-393).                                        *)
(***************************************************************************)
\* Mutant: a successful message click forgets to reset the counter.
CountAfterPost_NoReset(ok, count) == IF ok THEN count ELSE count + 1

\* Lines 336-342: success resets the counter, failure increments it.
CountAfterPost(ok, count) == IF ok THEN 0 ELSE count + 1

\* Mutant: the comparison is > instead of >=.
ShouldSwitch_OffByOne(count) == count > max_postmessage_failures

\* Mutant: the first failure already switches to hardware injection.
ShouldSwitch_Eager(count) == count >= 1

\* Line 346: the counter has reached the switch threshold.
ShouldSwitch(count) == count >= max_postmessage_failures

\* Mutant: the switch happens one failure early.
MethodAfterPost_Early(ok, count) ==
    IF ~ok /\ count + 1 >= max_postmessage_failures THEN "sendinput"
    ELSE "postmessage"

\* Lines 346-348: the click method after a message click.
MethodAfterPost(ok, count) ==
    IF ~ok /\ ShouldSwitch(count) THEN "sendinput" ELSE "postmessage"

\* Mutant: a failed hardware click falls back to message delivery.
MethodAfterSendInput_Demote(ok) == IF ok THEN "sendinput" ELSE "postmessage"

\* Lines 367-388: the sendinput branch assigns neither click_method nor the counter.
MethodAfterSendInput(ok) == "sendinput"

\* Lines 326-366: the click_method == 'postmessage' branch.
TouchPostMessage(b, pos, right_click, client, postFail, hwFail, restoreFail) ==
    LET sent == SendClickMessage(client, right_click, postFail)
        count == CountAfterPost(sent.ok, postmessage_fail_count[b])
        method == MethodAfterPost(sent.ok, count)
        retry == ~sent.ok /\ ShouldSwitch(count)
        target == GetScreenCoords(pos)
        hw == SendInputClick(cursor, target, right_click, hwFail, restoreFail)
        ret == sent.ok \/ (retry /\ hw.ok)
    IN  [method |-> method, count |-> count,
         cursor |-> IF retry THEN hw.cursor ELSE cursor,
         path |-> IF retry THEN "escalate" ELSE "postmessage",
         postAttempted |-> TRUE, posts |-> sent.posts,
         hwCalls |-> IF retry THEN 1 ELSE 0,
         hwTarget |-> IF retry THEN target ELSE UserPos,
         hwLog |-> IF retry THEN hw.log ELSE <<>>,
         hwOk |-> retry /\ hw.ok,
         ret |-> ret, recorded |-> ret]

\* Mutant: a failed hardware click is followed by a second injection.
TouchSendInput_InjectTwice(b, pos, right_click, hwFail, restoreFail) ==
    LET target == GetScreenCoords(pos)
        hw == SendInputClick(cursor, target, right_click, hwFail, restoreFail)
    IN  [method |-> MethodAfterSendInput(hw.ok), count |-> postmessage_fail_count[b],
         cursor |-> hw.cursor,
         path |-> "sendinput",
         postAttempted |-> FALSE, posts |-> <<>>,
         hwCalls |-> IF hw.ok THEN 1 ELSE 2, hwTarget |-> target,
         hwLog |-> IF hw.ok THEN hw.log ELSE hw.log \o hw.log, hwOk |-> hw.ok,
         ret |-> hw.ok, recorded |-> hw.ok]

\* Lines 367-388: the sendinput branch.
TouchSendInput(b, pos, right_click, hwFail, restoreFail) ==
    LET target == GetScreenCoords(pos)
        hw == SendInputClick(cursor, target, right_click, hwFail, restoreFail)
    IN  [method |-> MethodAfterSendInput(hw.ok), count |-> postmessage_fail_count[b],
         cursor |-> hw.cursor,
         path |-> "sendinput",
         postAttempted |-> FALSE, posts |-> <<>>,
         hwCalls |-> 1, hwTarget |-> target, hwLog |-> hw.log, hwOk |-> hw.ok,
         ret |-> hw.ok, recorded |-> hw.ok]

\* Lines 389-393: GetClientRect or GetWindowRect raised (a stale handle); the
\* except clause returns False and nothing else has happened.
TouchGeometryError(b) ==
    [method |-> click_method[b], count |-> postmessage_fail_count[b],
     cursor |-> cursor, path |-> "exception",
     postAttempted |-> FALSE, posts |-> <<>>,
     hwCalls |-> 0, hwTarget |-> UserPos, hwLog |-> <<>>, hwOk |-> FALSE,
     ret |-> FALSE, recorded |-> FALSE]

touch(b, pos, right_click, geomFails, s2cFails, postFail, hwFail, restoreFail) ==
    LET client == ResolveClient(b, pos, s2cFails) IN
    IF geomFails THEN TouchGeometryError(b)
    ELSE IF click_method[b] = "postmessage"
    THEN TouchPostMessage(b, pos, right_click, client, postFail, hwFail, restoreFail)
    ELSE TouchSendInput(b, pos, right_click, hwFail, restoreFail)

\* Mutant: click_method and the counter are shared by all the bindings
\* (class attributes instead of instance attributes).
Touch_Shared(b, pos, right_click, geomFails, s2cFails, postFail, hwFail, restoreFail) ==
    \E r \in {touch(b, pos, right_click, geomFails, s2cFails, postFail, hwFail,
                   restoreFail)} :
        /\ click_method' = [x \in Bindings |-> r.method]
        /\ postmessage_fail_count' = [x \in Bindings |-> r.count]
        /\ cursor' = r.cursor
        /\ last' = [NoCall EXCEPT !.op = "touch", !.b = b, !.path = r.path,
                                  !.ret = r.ret]
        /\ UNCHANGED <<failRun, escalations>>
        /\ UNCHANGED threadVars
        /\ UNCHANGED <<displayVars, registryVars>>

Touch(b, pos, right_click, geomFails, s2cFails, postFail, hwFail, restoreFail) ==
    \E r \in {touch(b, pos, right_click, geomFails, s2cFails, postFail, hwFail,
                   restoreFail)} :
        /\ click_method' = [click_method EXCEPT ![b] = r.method]
        /\ postmessage_fail_count' = [postmessage_fail_count EXCEPT ![b] = r.count]
        /\ cursor' = r.cursor
        /\ last' = [op |-> "touch", b |-> b, path |-> r.path,
                    methodBefore |-> click_method[b],
                    countBefore |-> postmessage_fail_count[b],
                    cursorBefore |-> cursor,
                    pos |-> pos, right_click |-> right_click,
                    client |-> IF geomFails THEN <<0, 0>>
                               ELSE ResolveClient(b, pos, s2cFails),
                    postAttempted |-> r.postAttempted, posts |-> r.posts,
                    hwCalls |-> r.hwCalls, hwTarget |-> r.hwTarget,
                    hwLog |-> r.hwLog, hwOk |-> r.hwOk,
                    ret |-> r.ret, raised |-> FALSE, delegated |-> FALSE,
                    recorded |-> r.recorded, key |-> "",
                    text |-> <<>>]
        \* history, kept from what the click was seen to do, not from the counter
        /\ failRun' = [failRun EXCEPT ![b] =
                          IF ~r.postAttempted THEN @
                          ELSE IF Len(r.posts) = 4 THEN 0
                          ELSE Min(@ + 1, max_postmessage_failures + 1)]
        /\ escalations' = [escalations EXCEPT ![b] =
                          IF click_method[b] = "postmessage" /\ r.method = "sendinput"
                          THEN @ + 1 ELSE @]
        /\ UNCHANGED threadVars
        /\ UNCHANGED <<displayVars, registryVars>>

(***************************************************************************)
(* BackgroundWindows.keyevent with a window handle bound                   *)
(* (background_windows.py 521-604).                                        *)
(***************************************************************************)
KeyNames == {"a", "Enter", "f1"}

\* keyname.lower()
Lower(keyname) == IF keyname = "Enter" THEN "enter" ELSE keyname

\* The entries of key_map the model's key names reach: 'a': 0x41, 'enter': 0x0D.
key_map == ("a" :> 65) @@ ("enter" :> 13)

\* Mutant: the key is pressed and never released.
KeyMessages_NoKeyUp(key_code) == << Msg("WM_KEYDOWN", "key_code", key_code) >>

\* Lines 596-599 with _send_key_message (521-531): WM_KEYDOWN, then WM_KEYUP,
\* both with wParam = key_code and lParam = 0 (kept in the record's lparam
\* field is the code, its wparam field names the kind of payload).
KeyMessages(key_code) ==
    << Msg("WM_KEYDOWN", "key_code", key_code), Msg("WM_KEYUP", "key_code", key_code) >>

\* keyFail = 0: both posts are accepted; keyFail = k: the k-th PostMessage
\* raises, and keyevent, which has no try block, lets the exception out.
\* A key that key_map does not hold goes to the default implementation,
\* whose result is delegateRet.
keyevent(keyname, keyFail, delegateRet) ==
    LET k == Lower(keyname) IN
    IF k \in DOMAIN key_map
    THEN LET all == KeyMessages(key_map[k])
         IN [posts |-> IF keyFail = 0 THEN all ELSE SubSeq(all, 1, keyFail - 1),
             ret |-> keyFail = 0, raised |-> keyFail # 0, delegated |-> FALSE]
    ELSE [posts |-> <<>>, ret |-> delegateRet, raised |-> FALSE, delegated |-> TRUE]

KeyEvent(b, keyname, keyFail, delegateRet) ==
    \E r \in {keyevent(keyname, keyFail, delegateRet)} :
    /\ last' = [NoCall EXCEPT !.op = "keyevent", !.b = b,
                              !.methodBefore = click_method[b],
                              !.countBefore = postmessage_fail_count[b],
                              !.cursorBefore = cursor,
                              !.postAttempted = ~r.delegated,
                              !.posts = r.posts, !.ret = r.ret,
                              !.raised = r.raised, !.delegated = r.delegated,
                              !.key = keyname]
    /\ UNCHANGED <<click_method, postmessage_fail_count, cursor, failRun, escalations>>
    /\ UNCHANGED threadVars
    /\ UNCHANGED <<displayVars, registryVars>>

(***************************************************************************)
(* BackgroundWindows.type with a window handle bound                       *)
(* (background_windows.py 606-628).                                        *)
(***************************************************************************)
\* The texts typed: "", "h", "hi", "hih", ... as character codes (ord).
Text(n) == [i \in 1..n |-> IF i % 2 = 1 THEN 104 ELSE 105]
Texts == {Text(n) : n \in 0..MaxTextLen}

\* Mutant: the characters are posted last to first.
CharMessages_Reversed(text) == [i \in 1..Len(text) |-> Msg("WM_CHAR", "char", text[Len(text) + 1 - i])]

\* Lines 619-622: one WM_CHAR with wParam = ord(char) per character of the
\* text, in the text's order.
CharMessages(text) == [i \in 1..Len(text) |-> Msg("WM_CHAR", "char", text[i])]

\* typeFail = 0: every WM_CHAR post is accepted and type returns True;
\* typeFail = k: the k-th post raises and the except clause hands the whole
\* text to the default implementation.
type(text, typeFail, delegateRet) ==
    LET all == CharMessages(text) IN
    IF typeFail = 0
    THEN [posts |-> all, ret |-> TRUE, delegated |-> FALSE]
    ELSE [posts |-> SubSeq(all, 1, typeFail - 1), ret |-> delegateRet,
          delegated |-> TRUE]

Type(b, text, typeFail, delegateRet) ==
    \E r \in {type(text, typeFail, delegateRet)} :
    /\ last' = [NoCall EXCEPT !.op = "type", !.b = b,
                              !.methodBefore = click_method[b],
                              !.countBefore = postmessage_fail_count[b],
                              !.cursorBefore = cursor,
                              !.postAttempted = TRUE,
                              !.posts = r.posts, !.ret = r.ret,
                              !.delegated = r.delegated, !.text = text]
    /\ UNCHANGED <<click_method, postmessage_fail_count, cursor, failRun, escalations>>
    /\ UNCHANGED threadVars
    /\ UNCHANGED <<displayVars, registryVars>>

(***************************************************************************)
(* BackgroundWindows.snapshot with a window handle bound                   *)
(* (background_windows.py 145-212).                                        *)
(***************************************************************************)
\* What can go wrong in the try block: GetWindowRect raises, the rectangle
\* is empty (width or height <= 0), or the mss grab raises.
SnapshotFailPoints == {"none", "GetWindowRect", "empty", "grab"}

\* Lines 162-203: the window's rectangle is grabbed and returned.  An empty
\* rectangle (173) and any exception (204-209) hand the call to the default
\* implementation; when that raises too, snapshot returns None (210-212).
\* path tells which picture the caller gets.
snapshot(snapFail, delegateRaises) ==
    IF snapFail = "none"
    THEN [path |-> "window", ret |-> TRUE, delegated |-> FALSE]
    ELSE [path |-> IF delegateRaises THEN "none" ELSE "default",
          ret |-> ~delegateRaises, delegated |-> TRUE]

Snapshot(b, snapFail, delegateRaises) ==
    \E r \in {snapshot(snapFail, delegateRaises)} :
    /\ last' = [NoCall EXCEPT !.op = "snapshot", !.b = b, !.path = r.path,
                              !.methodBefore = click_method[b],
                              !.countBefore = postmessage_fail_count[b],
                              !.cursorBefore = cursor,
                              !.ret = r.ret, !.delegated = r.delegated]
    /\ UNCHANGED <<click_method, postmessage_fail_count, cursor, failRun, escalations>>
    /\ UNCHANGED threadVars
    /\ UNCHANGED <<displayVars, registryVars>>

(***************************************************************************)
(* VirtualDisplayManager (src/virtual_display.py): the display list and    *)
(* the lookups on it.                                                      *)
(***************************************************************************)
\* What GetSystemMetrics(SM_CXSCREEN / SM_CYSCREEN) can report.
ScreenSizes == {<<1920, 1080>>}

\* A display-information dict, with the keys the code reads.
Display(id, primary, left, top, width, height, attached) ==
    [id |-> id, is_primary |-> primary, left |-> left, top |-> top,
     width |-> width, height |-> height, is_attached |-> attached]

\* None where a display is expected.
NoDisplay == Display(-1, FALSE, 0, 0, 0, 0, FALSE)

\* Lines 63-75: the main display made from the screen size.
MainDisplay(size) == Display(0, TRUE, 0, 0, size[1], size[2], TRUE)

\* Mutant: the default virtual display is laid over the main display.
DefaultVirtualDisplay_Overlap(main, n) ==
    Display(n, FALSE, 0, 0, main.width, main.height, FALSE)

\* Lines 92-104: the default virtual display, to the right of the main one;
\* n is len(self.displays).
DefaultVirtualDisplay(main, n) ==
    Display(n, FALSE, main.width, 0, main.width, main.height, FALSE)

\* VirtualDisplayManager.__init__ before its first refresh (35-37).
NoDisplays == [displays |-> <<>>, main_display |-> NoDisplay, virtual_display |-> NoDisplay]

\* Mutant: a refresh keeps what the previous one found.
ResetDisplays_Keep(v) == v

\* Lines 44-46: a refresh starts from an empty list, whatever v held.
ResetDisplays(v) == NoDisplays

\* update_displays_info (40-107).  The enumeration of display devices is
\* switched off (method1_success = False); the main display comes from
\* GetSystemMetrics, and when that raises (metricsFail) the except clause
\* only logs: the list stays empty and main_display stays None.
\* v is the manager before the call: lines 44-46 empty it first, the main
\* display is appended (77-78) and, with no virtual display and a main
\* display (89), the default virtual display is appended (105-106).
update_displays_info(v, metricsFail, size) ==
    LET v0 == ResetDisplays(v)
        v1 == IF metricsFail THEN v0
              ELSE [v0 EXCEPT !.displays = Append(@, MainDisplay(size)),
                              !.main_display = MainDisplay(size)]
    IN  IF v1.virtual_display = NoDisplay /\ v1.main_display # NoDisplay
        THEN LET virtual == DefaultVirtualDisplay(v1.main_display, Len(v1.displays))
             IN  [v1 EXCEPT !.displays = Append(@, virtual),
                            !.virtual_display = virtual]
        ELSE v1

\* is_point_in_display (133-144).
is_point_in_display(point, display) ==
    /\ display.left <= point[1] /\ point[1] < display.left + display.width
    /\ display.top <= point[2] /\ point[2] < display.top + display.height

\* Mutant: the lookup returns the last display of the list whatever the point.
DisplayForPoint_Last(v, point) ==
    IF v.displays = <<>> THEN v.main_display ELSE v.displays[Len(v.displays)]

\* Lines 166-172: the first display of the list that contains the point,
\* the main display when none does.
DisplayForPoint(v, point) ==
    LET hits == {i \in 1..Len(v.displays) : is_point_in_display(point, v.displays[i])}
    IN  IF hits = {} THEN v.main_display
        ELSE v.displays[CHOOSE i \in hits : \A j \in hits : i <= j]

Rect(left, top, right, bottom) ==
    [left |-> left, top |-> top, right |-> right, bottom |-> bottom]

\* Lines 162-164: the centre of the window's rectangle.
Centre(rect) == <<(rect.left + rect.right) \div 2, (rect.top + rect.bottom) \div 2>>

\* What the OS makes of a window handle: "live"; "invalid" (IsWindow is
\* false); "raises" (GetWindowRect raises).
HwndStates == {"live", "invalid", "raises"}

\* get_window_display (146-178).
get_window_display(v, rect, hwndState) ==
    IF hwndState # "live" THEN v.main_display
    ELSE DisplayForPoint(v, Centre(rect))

\* Mutant: the rectangle keeps its size and only its origin is moved.
RectOfDisplay_KeepSize(display, rect) ==
    Rect(display.left, display.top,
         display.left + (rect.right - rect.left), display.top + (rect.bottom - rect.top))

\* move_window_to_display, lines 191-196: MoveWindow(hwnd, left, top, width,
\* height) gives the window the display's rectangle.
RectOfDisplay(display, rect) ==
    Rect(display.left, display.top,
         display.left + display.width, display.top + display.height)

(***************************************************************************)
(* IndependentMouse.send_mouse_input (independent_mouse.py 200-275) with   *)
(* MOUSEEVENTF_ABSOLUTE.                                                   *)
(***************************************************************************)
\* Mutant: the offset is not clamped into the display.
DeviceUnit_NoClamp(p, origin, size) == ((p - origin) * 65535) \div size

\* Lines 237-246: the offset from the display's origin, clamped into
\* [0, size], as a fraction of 65535, cut to an integer by int().
DeviceUnit(p, origin, size) ==
    (Max(0, Min(p - origin, size)) * 65535) \div size

(***************************************************************************)
(* One caller: whole operations, one after the other.                      *)
(***************************************************************************)
\* BackgroundWindows.__init__ (lines 60-65) for every binding; the shared
\* controller's threads are outside click_background_fallback.
\* Where the bound windows are when they are bound: on the main display,
\* with the origin WindowGeometry reports.
(***************************************************************************)
(* GameWindowManager (game_window_manager.py): the cache of visible        *)
(* windows.  Titles and class names are sequences of characters.           *)
(***************************************************************************)
\* str.lower() on the characters the model uses.
LowerChar(c) ==
    CASE c = "G" -> "g" [] c = "A" -> "a" [] c = "N" -> "n" [] c = "U" -> "u"
      [] OTHER -> c
LowerStr(str) == [i \in 1..Len(str) |-> LowerChar(str[i])]

\* Python's `sub in str` for strings.
Contains(sub, str) ==
    \E k \in 0..(Len(str) - Len(sub)) : SubSeq(str, k + 1, k + Len(sub)) = sub

\* A window as the OS has it: top_level says whether EnumWindows visits it.
Window(hwnd, top_level, visible, title, class_name, rect) ==
    [hwnd |-> hwnd, top_level |-> top_level, visible |-> visible,
     title |-> title, class_name |-> class_name, rect |-> rect]

BigRect == Rect(0, 0, 800, 600)
IconRect == Rect(0, 0, 16, 16)
EdgeRect == Rect(10, 10, 111, 110)

\* Three desktops: the order, the visibility and the size of the windows
\* differ, window 3 has no title, window 5 is a child window, EdgeRect is
\* 101 wide and 100 high.
DesktopA ==
    << Window(1, TRUE, TRUE, <<"G", "a">>, <<"U", "n">>, BigRect),
       Window(2, TRUE, TRUE, <<"g", "a", "2">>, <<"U", "n">>, BigRect),
       Window(3, TRUE, TRUE, <<>>, <<"N", "p">>, BigRect),
       Window(4, TRUE, TRUE, <<"N", "o">>, <<"N", "p">>, IconRect) >>
DesktopB ==
    << Window(2, TRUE, TRUE, <<"g", "a", "2">>, <<"U", "n">>, BigRect),
       Window(1, TRUE, TRUE, <<"G", "a">>, <<"U", "n">>, BigRect),
       Window(4, TRUE, FALSE, <<"N", "o">>, <<"N", "p">>, BigRect),
       Window(5, FALSE, TRUE, <<"N", "o">>, <<"N", "p">>, BigRect) >>
DesktopC ==
    << Window(4, TRUE, TRUE, <<"N", "o">>, <<"N", "p">>, EdgeRect),
       Window(3, TRUE, TRUE, <<>>, <<"N", "p">>, BigRect) >>
Desktops == {DesktopA, DesktopB, DesktopC}
Handles == 1..6

\* Lines 51-64 and 117-128: the metadata kept for a window.
WindowInfo(w) ==
    [title |-> w.title, class_name |-> w.class_name,
     left |-> w.rect.left, top |-> w.rect.top,
     width |-> w.rect.right - w.rect.left, height |-> w.rect.bottom - w.rect.top]
Entry(w) == [hwnd |-> w.hwnd, info |-> WindowInfo(w)]

\* Mutant: the size test lets every window through.
IsGameWindow_AnySize(w) == w.visible /\ w.title # <<>>

\* Lines 44-56: a visible window with a title, wider and higher than 100.
IsGameWindow(w) ==
    /\ w.visible /\ w.title # <<>>
    /\ w.rect.right - w.rect.left > 100 /\ w.rect.bottom - w.rect.top > 100

\* EnumWindows: the top-level windows, in the OS's order.
TopLevel(w) == w.top_level
Pick(w) == TopLevel(w) /\ IsGameWindow(w)

\* update_game_windows (37-69): the cache is emptied and filled again.
update_game_windows(d) ==
    LET kept == SelectSeq(d, Pick) IN [i \in 1..Len(kept) |-> Entry(kept[i])]

CachedHandles(cache) == {cache[i].hwnd : i \in 1..Len(cache)}
CachedInfo(cache, hwnd) ==
    cache[CHOOSE i \in 1..Len(cache) : cache[i].hwnd = hwnd].info

\* Lines 86-88: the title test and the class test of one cached window.
Matches(info, title_pattern, hasClass, class_pattern) ==
    /\ Contains(LowerStr(title_pattern), LowerStr(info.title))
    /\ ~hasClass \/ Contains(LowerStr(class_pattern), LowerStr(info.class_name))

\* Mutant: the last match is returned.
FirstMatch_Last(matching) == IF matching = <<>> THEN 0 ELSE matching[Len(matching)]

\* Lines 93-99: matching_windows[0], or 0 when the list is empty.
FirstMatch(matching) == IF matching = <<>> THEN 0 ELSE matching[1]

\* find_game_window (71-99) on the cache the refresh has just built.
find_game_window(cache, title_pattern, hasClass, class_pattern) ==
    LET Hit(e) == Matches(e.info, title_pattern, hasClass, class_pattern)
        hits == SelectSeq(cache, Hit)
    IN  FirstMatch([i \in 1..Len(hits) |-> hits[i].hwnd])

\* The window with this handle, as a sequence of none or one.
WindowOf(d, hwnd) == LET Same(w) == w.hwnd = hwnd IN SelectSeq(d, Same)

\* Mutant: a window queried directly is returned and not cached.
CacheAfterQuery_NoInsert(cache, entry) == cache

\* Line 129: self.game_windows[hwnd] = window_info for a handle not cached.
CacheAfterQuery(cache, entry) == Append(cache, entry)

\* get_window_info (101-134).  A cached handle is answered from the cache;
\* otherwise IsWindow and IsWindowVisible decide whether the window is
\* queried, cached and returned; queryRaises: the window goes away during
\* the query and the except clause logs.  The result is a sequence: <<>>
\* for None.
get_window_info(cache, d, hwnd, queryRaises) ==
    IF hwnd \in CachedHandles(cache)
    THEN [cache |-> cache, result |-> << CachedInfo(cache, hwnd) >>,
          hit |-> TRUE, queried |-> FALSE]
    ELSE LET w == WindowOf(d, hwnd) IN
         IF w # <<>> /\ w[1].visible /\ ~queryRaises
         THEN [cache |-> CacheAfterQuery(cache, Entry(w[1])),
               result |-> << WindowInfo(w[1]) >>, hit |-> FALSE, queried |-> TRUE]
         ELSE [cache |-> cache, result |-> <<>>, hit |-> FALSE, queried |-> TRUE]

NoRegistryCall ==
    [op |-> "none", hwnd |-> 0, desktop |-> <<>>, before |-> {},
     title_pattern |-> <<>>, hasClass |-> FALSE, class_pattern |-> <<>>,
     found |-> 0, result |-> <<>>, hit |-> FALSE, queried |-> FALSE,
     queryRaises |-> FALSE]

InitialRect == Rect(2, 1, 10, 8)

\* Where the user can put a window: back there, or away by minimising it
\* (a minimised window's rectangle starts at (-32000, -32000)).
UserRects == {InitialRect, Rect(-32000, -32000, -31840, -31972)}

\* No display or window operation has been made yet.
NoDisplayCall ==
    [op |-> "none", hwnd |-> 0, display |-> NoDisplay, result |-> NoDisplay,
     hwndState |-> "live", ret |-> FALSE, activated |-> 0, moved |-> FALSE,
     dx |-> 0, dy |-> 0, mi |-> <<0, 0>>, size |-> <<0, 0>>, again |-> FALSE,
     embedded |-> FALSE, parentFails |-> FALSE]

IdleThread ==
    [pc |-> "idle", target |-> UserPos, right_click |-> FALSE,
     original_pos |-> UserPos, bound |-> FALSE, moved |-> FALSE,
     savedMidTeleport |-> FALSE, ok |-> FALSE,
     b |-> 0, count_read |-> 0, succeeded |-> FALSE]

Init ==
    /\ click_method = [b \in Bindings |-> "postmessage"]
    /\ postmessage_fail_count = [b \in Bindings |-> 0]
    /\ cursor = UserPos
    /\ last = NoCall
    /\ failRun = [b \in Bindings |-> 0]
    /\ escalations = [b \in Bindings |-> 0]
    /\ thread = [t \in Threads |-> IdleThread]
    /\ osRejected = FALSE
    /\ vdm \in {update_displays_info(NoDisplays, FALSE, size) : size \in ScreenSizes}
    /\ independent_mouse =
          [target_display |-> NoDisplay,
           main_display |-> vdm.main_display,
           virtual_display |-> vdm.virtual_display]
    /\ window_rect = [h \in Bindings |-> InitialRect]
    /\ window_display = [b \in Bindings |-> NoDisplay]
    /\ is_virtual_screen = [b \in Bindings |-> FALSE]
    /\ foreground = 0
    /\ lastD = NoDisplayCall
    /\ desktop = DesktopA
    /\ game_windows = update_game_windows(DesktopA)
    /\ lastR = NoRegistryCall

\* The OS outcomes that can make a difference to the call: a call that is
\* never made has no outcome to choose.
HwRuns(b, geomFails, postFail) ==
    /\ ~geomFails
    /\ \/ click_method[b] = "sendinput"
       \/ postFail # 0 /\ postmessage_fail_count[b] + 1 >= max_postmessage_failures

Next ==
    \/ \E b \in Bindings, pos \in Points, right_click \in BOOLEAN,
          geomFails \in BOOLEAN :
        \E s2cFails \in (IF geomFails \/ is_embedded(b) THEN {FALSE} ELSE BOOLEAN),
           postFail \in (IF geomFails \/ click_method[b] = "sendinput"
                         THEN {0} ELSE 0..4) :
        \E hwFail \in (IF HwRuns(b, geomFails, postFail)
                       THEN HwFailPoints ELSE {"none"}) :
        \E restoreFail \in (IF HwRuns(b, geomFails, postFail)
                               /\ hwFail # "GetCursorPos"
                               /\ (hwFail # "none" \/ ~TimeImported)
                            THEN BOOLEAN ELSE {FALSE}) :
            Touch(b, pos, right_click, geomFails, s2cFails, postFail, hwFail,
                  restoreFail)
    \/ \E b \in Bindings, keyname \in KeyNames :
        \E keyFail \in (IF Lower(keyname) \in DOMAIN key_map THEN 0..2 ELSE {0}),
           delegateRet \in (IF Lower(keyname) \in DOMAIN key_map
                            THEN {FALSE} ELSE BOOLEAN) :
            KeyEvent(b, keyname, keyFail, delegateRet)
    \/ \E b \in Bindings, text \in Texts :
        \E typeFail \in 0..Len(text) :
        \E delegateRet \in (IF typeFail = 0 THEN {FALSE} ELSE BOOLEAN) :
            Type(b, text, typeFail, delegateRet)
    \/ \E b \in Bindings, snapFail \in SnapshotFailPoints :
        \E delegateRaises \in (IF snapFail = "none" THEN {FALSE} ELSE BOOLEAN) :
            Snapshot(b, snapFail, delegateRaises)

Spec == Init /\ [][Next]_vars

(***************************************************************************)
(* Several threads in click_background_fallback on the one shared          *)
(* IndependentMouse (independent_mouse.py 462-492, reached through         *)
(* _send_input_click): the method takes no lock, so the threads' statements*)
(* interleave freely.  One step is one statement.                          *)
(***************************************************************************)
TryPcs == {"GetCursorPos", "SetCursorPos", "button_down", "time.sleep",
           "button_up", "restore"}

\* The call: click_background_fallback(x, y, right_click) begins.
EnterFallback(t, target, right_click) ==
    /\ thread[t].pc = "idle"
    /\ thread' = [thread EXCEPT ![t] =
                    [IdleThread EXCEPT !.pc = "GetCursorPos", !.target = target,
                                       !.right_click = right_click]]
    /\ UNCHANGED <<cursor, osRejected>>
    /\ UNCHANGED bindingVars
    /\ UNCHANGED <<displayVars, registryVars>>

\* The statement after pc in the try block.
NextPc(pc) ==
    CASE pc = "GetCursorPos" -> "SetCursorPos"
      [] pc = "SetCursorPos" -> "button_down"
      [] pc = "button_down"  -> "time.sleep"
      [] pc = "time.sleep"   -> "button_up"
      [] pc = "button_up"    -> "restore"
      [] pc = "restore"      -> "return"

\* Whether the statement at pc completes: time.sleep raises NameError when
\* time is not imported; every other statement is an OS call that the OS
\* accepts or rejects.
Completes(pc, accepted) == IF pc = "time.sleep" THEN TimeImported ELSE accepted

\* Lines 462-484: one statement of the try block.  A statement that raises
\* sends the thread to the except clause.
TryStep(t, accepted) ==
    LET th == thread[t]
        done == Completes(th.pc, accepted)
    IN  /\ th.pc \in TryPcs
        /\ thread' = [thread EXCEPT ![t] =
              IF ~done THEN [th EXCEPT !.pc = "except"]
              ELSE IF th.pc = "GetCursorPos"
              THEN [th EXCEPT !.pc = NextPc(th.pc), !.original_pos = cursor,
                              !.bound = TRUE,
                              !.savedMidTeleport =
                                  \E u \in Threads \ {t} : thread[u].moved]
              ELSE IF th.pc = "SetCursorPos"
              THEN [th EXCEPT !.pc = NextPc(th.pc), !.moved = TRUE]
              ELSE IF th.pc = "restore"
              THEN [th EXCEPT !.pc = NextPc(th.pc), !.moved = FALSE, !.ok = TRUE]
              ELSE [th EXCEPT !.pc = NextPc(th.pc)]]
        /\ cursor' = IF done /\ th.pc = "SetCursorPos" THEN th.target
                     ELSE IF done /\ th.pc = "restore" THEN th.original_pos
                     ELSE cursor
        /\ osRejected' = (osRejected \/ (th.pc # "time.sleep" /\ ~accepted))
        /\ UNCHANGED bindingVars
        /\ UNCHANGED <<displayVars, registryVars>>

\* Lines 485-492: the except clause.  SetCursorPos(original_pos) runs inside
\* try/except: pass; with original_pos unbound nothing reaches the OS.
ExceptStep(t, accepted) ==
    LET th == thread[t]
        restored == th.bound /\ accepted
    IN  /\ th.pc = "except"
        /\ thread' = [thread EXCEPT ![t] =
              [th EXCEPT !.pc = "return", !.ok = FALSE,
                         !.moved = IF restored THEN FALSE ELSE @]]
        /\ cursor' = IF restored THEN th.original_pos ELSE cursor
        /\ osRejected' = (osRejected \/ (th.bound /\ ~accepted))
        /\ UNCHANGED bindingVars
        /\ UNCHANGED <<displayVars, registryVars>>

\* return True / return False: the call is over.
ReturnFallback(t) ==
    /\ thread[t].pc = "return"
    /\ thread' = [thread EXCEPT ![t] = IdleThread]
    /\ UNCHANGED <<cursor, osRejected>>
    /\ UNCHANGED bindingVars
    /\ UNCHANGED <<displayVars, registryVars>>

NextConc ==
    \/ \E t \in Threads, target \in Points, right_click \in BOOLEAN :
          EnterFallback(t, target, right_click)
    \/ \E t \in Threads :
        \E accepted \in (IF thread[t].pc = "time.sleep" THEN {TRUE} ELSE BOOLEAN) :
          TryStep(t, accepted)
    \/ \E t \in Threads :
        \E accepted \in (IF thread[t].bound THEN BOOLEAN ELSE {TRUE}) :
          ExceptStep(t, accepted)
    \/ \E t \in Threads : ReturnFallback(t)

SpecConc == Init /\ [][NextConc]_vars

(***************************************************************************)
(* Several threads in touch on BackgroundWindows instances                 *)
(* (background_windows.py 326-388).  touch takes no lock either; one step  *)
(* is one read or write of the instance's attributes, one PostMessage      *)
(* click, or one hardware click.  self.postmessage_fail_count += 1 is a    *)
(* read followed by a write.                                               *)
(***************************************************************************)
\* The points of Points that lie inside an embedded window's client area:
\* which point is clicked makes no difference to the counter.
InsidePoints ==
    {p \in Points : \A b \in Bindings :
                        is_embedded(b) => ResolveClient(b, p, FALSE) = p}

\* The call: touch(pos) on binding b begins; the point has been resolved.
EnterTouch(t, b, pos) ==
    /\ thread[t].pc = "idle"
    /\ thread' = [thread EXCEPT ![t] =
                    [IdleThread EXCEPT !.pc = "branch", !.b = b, !.target = pos,
                                       !.succeeded = thread[t].succeeded]]
    /\ UNCHANGED <<cursor, osRejected>>
    /\ UNCHANGED bindingVars
    /\ UNCHANGED <<displayVars, registryVars>>

\* Line 326: if self.click_method == 'postmessage'.
Branch(t) ==
    LET th == thread[t] IN
    /\ th.pc = "branch"
    /\ thread' = [thread EXCEPT ![t] =
          [th EXCEPT !.pc = IF click_method[th.b] = "postmessage"
                            THEN "post" ELSE "hwclick"]]
    /\ UNCHANGED <<cursor, osRejected>>
    /\ UNCHANGED bindingVars
    /\ UNCHANGED <<displayVars, registryVars>>

\* Lines 334-336: _send_click_message and the test of its result.
Post(t, postFail) ==
    LET th == thread[t]
        sent == SendClickMessage(th.target, th.right_click, postFail)
    IN  /\ th.pc = "post"
        /\ thread' = [thread EXCEPT ![t] =
              [th EXCEPT !.pc = IF sent.ok THEN "reset" ELSE "load",
                         !.succeeded = @ \/ sent.ok]]
        /\ failRun' = [failRun EXCEPT ![th.b] =
                          IF sent.ok THEN 0
                          ELSE Min(@ + 1, max_postmessage_failures + 1)]
        /\ UNCHANGED <<click_method, postmessage_fail_count, last, escalations>>
        /\ UNCHANGED <<cursor, osRejected>>
        /\ UNCHANGED <<displayVars, registryVars>>

\* Line 338: self.postmessage_fail_count = 0, then record_touch and return True.
Reset(t) ==
    LET th == thread[t] IN
    /\ th.pc = "reset"
    /\ postmessage_fail_count' = [postmessage_fail_count EXCEPT ![th.b] = 0]
    /\ thread' = [thread EXCEPT ![t] = [th EXCEPT !.pc = "return_touch", !.ok = TRUE]]
    /\ UNCHANGED <<click_method, last, failRun, escalations>>
    /\ UNCHANGED <<cursor, osRejected>>
    /\ UNCHANGED <<displayVars, registryVars>>

\* Line 342, first half: the read of self.postmessage_fail_count.
Load(t) ==
    LET th == thread[t] IN
    /\ th.pc = "load"
    /\ thread' = [thread EXCEPT ![t] =
          [th EXCEPT !.pc = "store", !.count_read = postmessage_fail_count[th.b]]]
    /\ UNCHANGED <<cursor, osRejected>>
    /\ UNCHANGED bindingVars
    /\ UNCHANGED <<displayVars, registryVars>>

\* Line 342, second half: the write of the incremented value.
Store(t) ==
    LET th == thread[t] IN
    /\ th.pc = "store"
    /\ postmessage_fail_count' =
          [postmessage_fail_count EXCEPT ![th.b] = th.count_read + 1]
    /\ thread' = [thread EXCEPT ![t] = [th EXCEPT !.pc = "test"]]
    /\ UNCHANGED <<click_method, last, failRun, escalations>>
    /\ UNCHANGED <<cursor, osRejected>>
    /\ UNCHANGED <<displayVars, registryVars>>

\* Lines 346 and 357-360: the threshold test; below it touch returns False.
Test(t) ==
    LET th == thread[t] IN
    /\ th.pc = "test"
    /\ thread' = [thread EXCEPT ![t] =
          IF ShouldSwitch(postmessage_fail_count[th.b])
          THEN [th EXCEPT !.pc = "switch"]
          ELSE [th EXCEPT !.pc = "return_touch", !.ok = FALSE]]
    /\ UNCHANGED <<cursor, osRejected>>
    /\ UNCHANGED bindingVars
    /\ UNCHANGED <<displayVars, registryVars>>

\* Line 348: self.click_method = 'sendinput'.
Switch(t) ==
    LET th == thread[t] IN
    /\ th.pc = "switch"
    /\ click_method' = [click_method EXCEPT ![th.b] = "sendinput"]
    /\ escalations' = [escalations EXCEPT ![th.b] = @ + 1]
    /\ thread' = [thread EXCEPT ![t] = [th EXCEPT !.pc = "retry"]]
    /\ UNCHANGED <<postmessage_fail_count, last, failRun>>
    /\ UNCHANGED <<cursor, osRejected>>
    /\ UNCHANGED <<displayVars, registryVars>>

\* Lines 351-356 and 375-388: the hardware click, taken as one step here
\* (SpecConc takes it apart), the OS accepting its calls.
HwClick(t) ==
    LET th == thread[t] IN
    /\ th.pc \in {"retry", "hwclick"}
    /\ \E hw \in {SendInputClick(cursor, GetScreenCoords(th.target),
                                  th.right_click, "none", FALSE)} :
          /\ cursor' = hw.cursor
          /\ thread' = [thread EXCEPT ![t] =
                          [th EXCEPT !.pc = "return_touch", !.ok = hw.ok]]
    /\ UNCHANGED osRejected
    /\ UNCHANGED bindingVars
    /\ UNCHANGED <<displayVars, registryVars>>

\* return True / return False: the call is over.
ReturnTouch(t) ==
    /\ thread[t].pc = "return_touch"
    /\ thread' = [thread EXCEPT ![t] =
                    [IdleThread EXCEPT !.succeeded = thread[t].succeeded]]
    /\ UNCHANGED <<cursor, osRejected>>
    /\ UNCHANGED bindingVars
    /\ UNCHANGED <<displayVars, registryVars>>

NextTouch ==
    \/ \E t \in Threads, b \in Bindings, pos \in InsidePoints :
          EnterTouch(t, b, pos)
    \/ \E t \in Threads : Branch(t)
    \/ \E t \in Threads, postFail \in {0, 1} : Post(t, postFail)
    \/ \E t \in Threads : Reset(t)
    \/ \E t \in Threads : Load(t)
    \/ \E t \in Threads : Store(t)
    \/ \E t \in Threads : Test(t)
    \/ \E t \in Threads : Switch(t)
    \/ \E t \in Threads : HwClick(t)
    \/ \E t \in Threads : ReturnTouch(t)

SpecTouch == Init /\ [][NextTouch]_vars

(***************************************************************************)
(* Displays and windows: the operations of VirtualDisplayManager           *)
(* (src/virtual_display.py), GameWindowManager's window moves              *)
(* (src/game_window_manager.py 136-202), BackgroundWindows.init_hwnd's     *)
(* display part and IndependentMouse's target display and absolute mouse   *)
(* input.  A window handle is the number of the binding bound to it.       *)
(***************************************************************************)
\* The windows the window manager is asked to move and activate; the other
\* bound windows stay where they are.
GameWindows == {1}

\* Points handed to send_mouse_input.
MousePoints == {<<2880, 540>>, <<5, 4>>, <<-1, 9>>}

\* What can go wrong in activate_window: nothing, ShowWindow raises, or
\* SetForegroundWindow raises.
ActivateFailPoints == {"none", "ShowWindow", "SetForegroundWindow"}

\* update_displays_info (virtual_display.py 40-107).
UpdateDisplaysInfo(metricsFail, size) ==
    /\ vdm' = update_displays_info(vdm, metricsFail, size)
    /\ lastD' = [NoDisplayCall EXCEPT
                    !.op = "update_displays_info", !.ret = ~metricsFail,
                    !.size = size,
                    !.again = /\ lastD.op = "update_displays_info"
                              /\ lastD.ret = ~metricsFail /\ lastD.size = size]
    /\ UNCHANGED <<independent_mouse, window_rect, window_display,
                   is_virtual_screen, foreground>>
    /\ UNCHANGED <<inputVars, registryVars>>

\* get_window_display (virtual_display.py 146-178).
GetWindowDisplay(hwnd, hwndState) ==
    /\ lastD' = [NoDisplayCall EXCEPT
                    !.op = "get_window_display", !.hwnd = hwnd,
                    !.hwndState = hwndState,
                    !.result = get_window_display(vdm, window_rect[hwnd], hwndState)]
    /\ UNCHANGED <<vdm, independent_mouse, window_rect, window_display,
                   is_virtual_screen, foreground>>
    /\ UNCHANGED <<inputVars, registryVars>>

\* move_window_to_display (virtual_display.py 180-201): MoveWindow, and
\* False when it raises.
MoveWindowToDisplay(hwnd, display, moveFails) ==
    /\ window_rect' = IF moveFails THEN window_rect
                      ELSE [window_rect EXCEPT ![hwnd] = RectOfDisplay(display, @)]
    /\ lastD' = [NoDisplayCall EXCEPT
                    !.op = "move_window_to_display", !.hwnd = hwnd,
                    !.display = display, !.ret = ~moveFails, !.moved = ~moveFails]
    /\ UNCHANGED <<vdm, independent_mouse, window_display, is_virtual_screen,
                   foreground>>
    /\ UNCHANGED <<inputVars, registryVars>>

\* move_window_to_virtual_display (virtual_display.py 203-215).
MoveWindowToVirtualDisplay(hwnd, moveFails) ==
    LET display == vdm.virtual_display
        moved == display # NoDisplay /\ ~moveFails
    IN  /\ window_rect' = IF moved
                          THEN [window_rect EXCEPT ![hwnd] = RectOfDisplay(display, @)]
                          ELSE window_rect
        /\ lastD' = [NoDisplayCall EXCEPT
                        !.op = "move_window_to_virtual_display", !.hwnd = hwnd,
                        !.display = display, !.ret = moved, !.moved = moved]
        /\ UNCHANGED <<vdm, independent_mouse, window_display, is_virtual_screen,
                       foreground>>
        /\ UNCHANGED <<inputVars, registryVars>>

\* activate_window (virtual_display.py 217-234): ShowWindow(SW_SHOWMAXIMIZED),
\* then SetForegroundWindow; False when either raises.
ForegroundAfterActivate(hwnd, activateFail) ==
    IF activateFail = "none" THEN hwnd ELSE foreground

ActivateWindow(hwnd, activateFail) ==
    /\ foreground' = ForegroundAfterActivate(hwnd, activateFail)
    /\ lastD' = [NoDisplayCall EXCEPT
                    !.op = "activate_window", !.hwnd = hwnd,
                    !.ret = (activateFail = "none"), !.activated = 1]
    /\ UNCHANGED <<vdm, independent_mouse, window_rect, window_display,
                   is_virtual_screen>>
    /\ UNCHANGED <<inputVars, registryVars>>

\* Mutant: the window is moved and left where it is in the window order.
ActivationsAfterMove_None(moved) == 0

\* game_window_manager.py 161-163 and 195-197: a window that has been moved
\* is activated.
ActivationsAfterMove(moved) == IF moved THEN 1 ELSE 0

\* move_game_to_virtual_screen (136-168) and move_game_to_main_screen
\* (170-202) for a window handle: a refresh of the display list, the move to
\* the virtual (or the main) display and, when the window has moved,
\* activate_window, whose result is dropped.
MoveGameTo(which, hwnd, metricsFail, size, moveFails, activateFail) ==
    LET v == update_displays_info(vdm, metricsFail, size)
        display == IF which = "virtual" THEN v.virtual_display ELSE v.main_display
        moved == display # NoDisplay /\ ~moveFails
        activated == ActivationsAfterMove(moved)
    IN  /\ vdm' = v
        /\ window_rect' = IF moved
                          THEN [window_rect EXCEPT ![hwnd] = RectOfDisplay(display, @)]
                          ELSE window_rect
        /\ foreground' = IF activated > 0
                         THEN ForegroundAfterActivate(hwnd, activateFail)
                         ELSE foreground
        /\ lastD' = [NoDisplayCall EXCEPT
                        !.op = IF which = "virtual" THEN "move_game_to_virtual_screen"
                               ELSE "move_game_to_main_screen",
                        !.hwnd = hwnd, !.display = display, !.ret = moved,
                        !.moved = moved, !.activated = activated]
        /\ UNCHANGED <<independent_mouse, window_display, is_virtual_screen>>
        /\ UNCHANGED <<inputVars, registryVars>>

\* set_target_display for a display dict (independent_mouse.py 163-181):
\* None is neither a dict nor an int and leaves the target as it is.
set_target_display(im, display) ==
    IF display = NoDisplay THEN im ELSE [im EXCEPT !.target_display = display]

\* init_hwnd, lines 80-93: is_embedded is whether GetParent returns a handle;
\* when GetParent raises pywintypes.error it is False.
EmbeddedAfterInit(hasParent, parentFails) == hasParent /\ ~parentFails

\* init_hwnd (67-114).  Lines 80-93 give the embedded flag, which touch reads
\* as is_embedded(b), the value for a binding whose GetParent call worked.
\* init_hwnd, lines 95-114: a refresh, the display the window is on, the
\* virtual-screen flag and the mouse's target display.  With no display at
\* all the log line of the else branch raises and the except clause stores
\* get_main_display(), None again.
InitHwnd(b, hwndState, parentFails, metricsFail, size) ==
    LET v == update_displays_info(vdm, metricsFail, size)
        display == get_window_display(v, window_rect[b], hwndState)
    IN  /\ vdm' = v
        /\ window_display' = [window_display EXCEPT ![b] = display]
        /\ is_virtual_screen' = [is_virtual_screen EXCEPT ![b] =
                                    display # NoDisplay /\ ~display.is_primary]
        /\ independent_mouse' = set_target_display(independent_mouse, display)
        /\ lastD' = [NoDisplayCall EXCEPT
                        !.op = "init_hwnd", !.hwnd = b, !.hwndState = hwndState,
                        !.result = display, !.ret = display # NoDisplay,
                        !.parentFails = parentFails,
                        !.embedded = EmbeddedAfterInit(is_embedded(b), parentFails)]
        /\ UNCHANGED <<window_rect, foreground>>
        /\ UNCHANGED <<inputVars, registryVars>>

\* set_target_display_to_virtual and set_target_display_to_main
\* (independent_mouse.py 183-196).
SetTargetDisplayTo(which) ==
    LET display == IF which = "virtual" THEN independent_mouse.virtual_display
                   ELSE independent_mouse.main_display
    IN  /\ independent_mouse' = [independent_mouse EXCEPT !.target_display = display]
        /\ lastD' = [NoDisplayCall EXCEPT !.op = "set_target_display",
                                          !.display = display,
                                          !.ret = display # NoDisplay]
        /\ UNCHANGED <<vdm, window_rect, window_display, is_virtual_screen,
                       foreground>>
        /\ UNCHANGED <<inputVars, registryVars>>

\* send_mouse_input(dx, dy, MOUSEEVENTF_ABSOLUTE | ...) (independent_mouse.py
\* 200-275).  With no target display set, the display of the foreground
\* window, or the main display when there is none, becomes the target; with
\* no display at all the subscript raises and the call returns False, as it
\* does when SendInput is rejected.
SendMouseInput(dx, dy, sendFails) ==
    LET target == IF independent_mouse.target_display # NoDisplay
                    THEN independent_mouse.target_display
                  ELSE IF foreground # 0
                    THEN get_window_display(vdm, window_rect[foreground], "live")
                  ELSE independent_mouse.main_display
        converted == target # NoDisplay
    IN  /\ independent_mouse' = [independent_mouse EXCEPT !.target_display = target]
        /\ lastD' = [NoDisplayCall EXCEPT
                        !.op = "send_mouse_input", !.display = target,
                        !.dx = dx, !.dy = dy,
                        !.mi = IF converted
                               THEN <<DeviceUnit(dx, target.left, target.width),
                                      DeviceUnit(dy, target.top, target.height)>>
                               ELSE <<0, 0>>,
                        !.ret = converted /\ ~sendFails]
        /\ UNCHANGED <<vdm, window_rect, window_display, is_virtual_screen,
                       foreground>>
        /\ UNCHANGED <<inputVars, registryVars>>

\* The user moves or minimises a window: what GetWindowRect reports changes.
UserMovesWindow(hwnd, rect) ==
    /\ window_rect[hwnd] # rect
    /\ window_rect' = [window_rect EXCEPT ![hwnd] = rect]
    /\ UNCHANGED <<vdm, independent_mouse, window_display, is_virtual_screen,
                   foreground, lastD>>
    /\ UNCHANGED <<inputVars, registryVars>>

\* The displays a caller can hold: those of the list (get_displays).
KnownDisplays == {vdm.displays[i] : i \in 1..Len(vdm.displays)}

NextDisplay ==
    \/ \E metricsFail \in BOOLEAN :
        \E size \in ScreenSizes :
          UpdateDisplaysInfo(metricsFail, size)
    \/ \E hwnd \in Bindings, hwndState \in HwndStates :
          GetWindowDisplay(hwnd, hwndState)
    \/ \E hwnd \in GameWindows, display \in KnownDisplays, moveFails \in BOOLEAN :
          MoveWindowToDisplay(hwnd, display, moveFails)
    \/ \E hwnd \in GameWindows, moveFails \in BOOLEAN :
          MoveWindowToVirtualDisplay(hwnd, moveFails)
    \/ \E hwnd \in GameWindows, activateFail \in ActivateFailPoints :
          ActivateWindow(hwnd, activateFail)
    \/ \E which \in {"virtual", "main"}, hwnd \in GameWindows, metricsFail \in BOOLEAN :
        \E size \in ScreenSizes,
           moveFails \in (IF metricsFail THEN {FALSE} ELSE BOOLEAN) :
        \E activateFail \in (IF metricsFail \/ moveFails THEN {"none"}
                             ELSE ActivateFailPoints) :
          MoveGameTo(which, hwnd, metricsFail, size, moveFails, activateFail)
    \/ \E b \in Bindings, hwndState \in HwndStates, metricsFail \in BOOLEAN :
        \E size \in ScreenSizes, parentFails \in BOOLEAN :
          InitHwnd(b, hwndState, parentFails, metricsFail, size)
    \/ \E which \in {"virtual", "main"} : SetTargetDisplayTo(which)
    \/ \E hwnd \in GameWindows, rect \in UserRects : UserMovesWindow(hwnd, rect)
    \/ \E p \in MousePoints, sendFails \in BOOLEAN :
          SendMouseInput(p[1], p[2], sendFails)

SpecDisplay == Init /\ [][NextDisplay]_vars

(***************************************************************************)
(* The window registry, one operation at a time.                           *)
(***************************************************************************)
TitlePatterns == {<<"g", "a">>, <<"G", "A">>, <<"o">>, <<"x">>}
ClassPatterns == {<<"u", "N">>, <<"p">>}

\* update_game_windows (37-69).
UpdateGameWindows ==
    /\ game_windows' = update_game_windows(desktop)
    /\ lastR' = [NoRegistryCall EXCEPT
                    !.op = "update_game_windows", !.desktop = desktop,
                    !.before = CachedHandles(game_windows)]
    /\ UNCHANGED desktop
    /\ UNCHANGED <<inputVars, displayVars>>

\* find_game_window (71-99): a refresh, then the search.
FindGameWindow(title_pattern, hasClass, class_pattern) ==
    LET cache == update_game_windows(desktop) IN
    /\ game_windows' = cache
    /\ lastR' = [NoRegistryCall EXCEPT
                    !.op = "find_game_window", !.desktop = desktop,
                    !.before = CachedHandles(game_windows),
                    !.title_pattern = title_pattern, !.hasClass = hasClass,
                    !.class_pattern = class_pattern,
                    !.found = find_game_window(cache, title_pattern, hasClass,
                                               class_pattern)]
    /\ UNCHANGED desktop
    /\ UNCHANGED <<inputVars, displayVars>>

\* get_window_info (101-134).
GetWindowInfo(hwnd, queryRaises) ==
    \E r \in {get_window_info(game_windows, desktop, hwnd, queryRaises)} :
    /\ game_windows' = r.cache
    /\ lastR' = [NoRegistryCall EXCEPT
                    !.op = "get_window_info", !.hwnd = hwnd, !.desktop = desktop,
                    !.before = CachedHandles(game_windows),
                    !.result = r.result, !.hit = r.hit, !.queried = r.queried,
                    !.queryRaises = queryRaises]
    /\ UNCHANGED desktop
    /\ UNCHANGED <<inputVars, displayVars>>

\* Windows open, close, hide, resize and change their order.
DesktopChanges(d) ==
    /\ desktop # d
    /\ desktop' = d
    /\ UNCHANGED <<game_windows, lastR>>
    /\ UNCHANGED <<inputVars, displayVars>>

NextRegistry ==
    \/ UpdateGameWindows
    \/ \E title_pattern \in TitlePatterns, hasClass \in BOOLEAN :
        \E class_pattern \in (IF hasClass THEN ClassPatterns ELSE {<<>>}) :
          FindGameWindow(title_pattern, hasClass, class_pattern)
    \/ \E hwnd \in Handles :
        \E queryRaises \in (IF hwnd \in CachedHandles(game_windows)
                                \/ WindowOf(desktop, hwnd) = <<>>
                             THEN {FALSE} ELSE BOOLEAN) :
          GetWindowInfo(hwnd, queryRaises)
    \/ \E d \in Desktops : DesktopChanges(d)

SpecRegistry == Init /\ [][NextRegistry]_vars

(***************************************************************************)
(* Properties.                                                             *)
(***************************************************************************)
Threshold == max_postmessage_failures

LastTouch == last.op = "touch"
\* The last operation was a click that went through to delivery.
LastDelivery == LastTouch /\ last.path # "exception"
\* The last operation was a message click, and whether its posts all went out.
LastMessageClick == LastDelivery /\ last.postAttempted
LastPostOk == LastMessageClick /\ Len(last.posts) = 4
LastPostFailed == LastMessageClick /\ Len(last.posts) < 4
\* The last operation called click_background_fallback.
LastHardware == LastTouch /\ last.hwCalls > 0

AllAccepted(log) == \A i \in 1..Len(log) : log[i].ok
CallsOf(log, c) == {i \in 1..Len(log) : log[i].call = c}

\* C1: with failure_threshold = 3, a binding whose run of consecutive failed
\* message clicks is shorter than 3 is in MessageMode and has never
\* escalated; once the run is 3 it is in HardwareMode and has escalated
\* exactly once; a click made in HardwareMode posts no message and makes one
\* hardware-injection call.
C1_EscalationOnThirdFailure ==
    /\ Threshold = 3
    /\ \A b \in Bindings :
          /\ failRun[b] < 3 =>
                click_method[b] = "postmessage" /\ escalations[b] = 0
          /\ failRun[b] >= 3 =>
                click_method[b] = "sendinput" /\ escalations[b] = 1
    /\ (LastDelivery /\ last.methodBefore = "sendinput") =>
          /\ ~last.postAttempted /\ last.posts = <<>>
          /\ last.hwCalls = 1 /\ Len(last.hwLog) > 0

\* Three failures in a row escalated the binding and a further click went
\* out by hardware injection.
C1_Witness ==
    /\ LastDelivery /\ last.methodBefore = "sendinput" /\ last.hwCalls = 1
    /\ failRun[last.b] = 3 /\ escalations[last.b] = 1

\* C2: a binding is outside MessageMode only if its run of failed message
\* clicks with no success between them reached the threshold, and a
\* successful message click leaves the counter at 0.
C2_ResetPreventsEscalation ==
    /\ \A b \in Bindings :
          click_method[b] # "postmessage" => failRun[b] >= Threshold
    /\ LastPostOk => postmessage_fail_count[last.b] = 0

\* A success after two failures reset the counter, and the binding is still
\* in MessageMode.
C2_Witness ==
    /\ LastPostOk /\ last.countBefore = 2
    /\ click_method[last.b] = "postmessage" /\ failRun[last.b] = 0

\* C3: no step takes a binding from HardwareMode back to another mode.
C3_StickyMode ==
    [][\A b \in Bindings :
          click_method[b] = "sendinput" => click_method'[b] = "sendinput"]_vars

\* A hardware click was made, and failed, on a binding that was already in
\* HardwareMode, and the binding still is in HardwareMode.
C3_Witness ==
    /\ LastHardware /\ last.methodBefore = "sendinput" /\ ~last.ret
    /\ click_method[last.b] = "sendinput"

C5_RetryOnEscalation ==
    LastPostFailed =>
        IF last.countBefore + 1 >= Threshold
        THEN /\ last.hwCalls = 1
             /\ Cardinality(CallsOf(last.hwLog, "GetCursorPos")) = 1
             /\ last.ret = (AllAccepted(last.hwLog))
        ELSE /\ last.hwCalls = 0 /\ last.hwLog = <<>>
             /\ last.ret = FALSE

\* The failure that reached the threshold retried by hardware injection.
C5_Witness ==
    /\ LastPostFailed /\ last.countBefore + 1 = Threshold
    /\ last.hwCalls = 1 /\ Len(last.hwLog) > 1

\* C6: a binding is in HardwareMode exactly when its counter has reached the
\* threshold, and the counter stays within 0..threshold.
C6_ModeCounterInvariant ==
    \A b \in Bindings :
        /\ (click_method[b] = "sendinput") <=> (postmessage_fail_count[b] >= Threshold)
        /\ 0 <= postmessage_fail_count[b]
        /\ postmessage_fail_count[b] <= Threshold

\* A binding in HardwareMode took a further click and the counter still
\* stands at the threshold.
C6_Witness ==
    /\ LastDelivery /\ last.methodBefore = "sendinput"
    /\ postmessage_fail_count[last.b] = Threshold

\* C7 as stated: when a hardware-injection click returns, the cursor is where
\* it was before the call, whichever step raised.
C7_CursorAlwaysRestored ==
    LastHardware => cursor = last.cursorBefore

CursorMoved(log) == Len(log) >= 2 /\ log[2].ok
RestoreRejected(log) ==
    /\ Len(log) >= 3
    /\ log[Len(log)].call = "SetCursorPos" /\ ~log[Len(log)].ok

\* C7 amended: when a hardware-injection click returns, the cursor is where it
\* was before the call whichever of the save, move, button and sleep steps
\* raised, unless the OS rejects the restoring SetCursorPos itself: then the
\* cursor is left at the click target.
C7_CursorRestoredUnlessRestoreRejected ==
    LastHardware =>
        cursor = IF CursorMoved(last.hwLog) /\ RestoreRejected(last.hwLog)
                 THEN last.hwTarget ELSE last.cursorBefore

\* A hardware click moved the cursor to a target away from where it was,
\* failed after the move, and the cursor is back.
C7_Witness ==
    /\ LastHardware /\ CursorMoved(last.hwLog) /\ ~last.ret
    /\ last.hwTarget # last.cursorBefore
    /\ cursor = last.cursorBefore

AllIdle == \A t \in Threads : thread[t].pc = "idle"

\* C8: concurrent hardware-injection clicks never interleave: no call saves
\* the cursor while another call has it teleported, so every saved position
\* is the user's, never a teleport target, and when every call has returned
\* (the OS having rejected nothing) the cursor is where the user left it.
C8_GuardMutualExclusion ==
    /\ \A t \in Threads : ~thread[t].savedMidTeleport
    /\ ~osRejected =>
          /\ \A t \in Threads : thread[t].bound => thread[t].original_pos = UserPos
          /\ AllIdle => cursor = UserPos

\* C9: a hardware click that injected a button-down injects the matching
\* button-up after it before it returns, and reports success when the OS
\* rejected none of its calls.
C9_HardwareClickProtocol ==
    LastHardware =>
        LET log == last.hwLog
            osCalls == {i \in 1..Len(log) : log[i].call # "time.sleep"}
        IN  /\ \A i \in 1..Len(log) :
                  (log[i].call = "mouse_event" /\ log[i].ok
                    /\ log[i].flag = ButtonDownFlag(last.right_click))
                  => \E j \in (i + 1)..Len(log) :
                        /\ log[j].call = "mouse_event" /\ log[j].ok
                        /\ log[j].flag = ButtonUpFlag(last.right_click)
            /\ (\A i \in osCalls : log[i].ok) => last.ret

Packed(client) == client[2] * 65536 + client[1]
MsgNames(posts) == [i \in 1..Len(posts) |-> posts[i].msg]
ClickOrder(right_click) ==
    IF right_click
    THEN <<"WM_MOUSEMOVE", "WM_RBUTTONDOWN", "WM_RBUTTONUP", "WM_MOUSELEAVE">>
    ELSE <<"WM_MOUSEMOVE", "WM_LBUTTONDOWN", "WM_LBUTTONUP", "WM_MOUSELEAVE">>

\* C10 as stated: a message click whose posts all succeed posts move,
\* button-down, button-up, pointer-leave, and each of the four carries the
\* packed client coordinates.
C10_AllFourCarryCoordinates ==
    LastPostOk =>
        /\ MsgNames(last.posts) = ClickOrder(last.right_click)
        /\ \A i \in 1..4 : last.posts[i].lparam = Packed(last.client)

\* C10 amended: a message click whose posts all succeed posts exactly move,
\* button-down, button-up, pointer-leave in that order; the first three
\* carry the packed client coordinates (y << 16 | x) of the resolved click
\* point, and the pointer-leave carries wParam 0 and lParam 0.
C10_MessageClickProtocol ==
    LastPostOk =>
        /\ MsgNames(last.posts) = ClickOrder(last.right_click)
        /\ \A i \in 1..3 : last.posts[i].lparam = Packed(last.client)
        /\ last.posts[4].lparam = 0 /\ last.posts[4].wparam = "0"
        /\ last.client = ResolveClient(last.b, last.pos, FALSE)
           \/ last.client = ResolveClient(last.b, last.pos, TRUE)

\* A message click at client point (2, 1) went out in full.
C10_Witness ==
    LastPostOk /\ last.client = <<2, 1>> /\ last.posts[1].lparam = 65538

\* C11: a message click on a live window reports success exactly when none
\* of its PostMessage calls raised (all four went out), whatever the target
\* does with them; in particular a click at a point inside the client area
\* whose posts are accepted returns success.
C11_SuccessIffPostsAccepted ==
    /\ LastMessageClick => (last.ret <=> Len(last.posts) = 4)
    /\ (LastMessageClick /\ Len(last.posts) = 4
          /\ last.client = ToClient(last.b, last.pos, FALSE)) => last.ret

\* A click at a point inside the window went out in full and returned True.
C11_Witness ==
    /\ LastMessageClick /\ last.ret
    /\ last.pos = <<5, 4>> /\ last.client = ToClient(last.b, last.pos, FALSE)

\* C12: a message click that does not escalate (its posts are accepted, or
\* they fail with the counter still below the threshold) makes no call of
\* the hardware path, so it neither reads nor moves the cursor, and the
\* cursor is where it was before the click.
C12_MessageClickLeavesCursor ==
    (LastMessageClick
       /\ (Len(last.posts) = 4 \/ last.countBefore + 1 < Threshold))
    => /\ last.path = "postmessage"
       /\ last.hwCalls = 0 /\ last.hwLog = <<>>
       /\ cursor = last.cursorBefore

\* A message click failed for the second time in a row and stayed in the
\* background.
C12_Witness ==
    /\ LastPostFailed /\ last.countBefore = 1 /\ ~last.ret
    /\ last.hwCalls = 0 /\ cursor = last.cursorBefore

\* The key of the last key press is in key_map.
LastKeyMapped == last.op = "keyevent" /\ Lower(last.key) \in DOMAIN key_map

\* C13: with a handle bound, a click, a type, a snapshot and a key press of
\* a mapped key never call the default (foreground) implementation,
\* whatever the outcome of the background delivery.
C13_NoDelegationWhenBound ==
    (last.op \in {"touch", "type", "snapshot"} \/ LastKeyMapped)
        => ~last.delegated

\* C14: a click, a key press and a type on a bound window end by returning
\* True or False; a failing OS call inside them never leaves the operation
\* as an exception.
C14_FailureIsAResult ==
    last.op \in {"touch", "keyevent", "type"} => ~last.raised

\* C15: every click on a bound window records one latency sample, whether
\* it returns True or False and whichever click method it used.
C15_EveryClickRecorded ==
    LastTouch => last.recorded

\* C16: a click in HardwareMode that fails returns False, posts no message,
\* calls the hardware click once only (one cursor save, at most one
\* button-down), and leaves click_method and the failure counter as they
\* were.
C16_HardwareFailureIsFinal ==
    (LastTouch /\ last.path = "sendinput" /\ ~last.ret)
    => /\ ~last.postAttempted /\ last.posts = <<>>
       /\ last.hwCalls = 1
       /\ Cardinality(CallsOf(last.hwLog, "GetCursorPos")) = 1
       /\ Cardinality(CallsOf(last.hwLog, "mouse_event")) <= 1
       /\ click_method[last.b] = last.methodBefore
       /\ postmessage_fail_count[last.b] = last.countBefore

\* The OS rejected the button-down of a click in HardwareMode.
C16_Witness ==
    /\ LastTouch /\ last.path = "sendinput" /\ ~last.ret
    /\ Len(last.hwLog) >= 3 /\ last.hwLog[3].call = "mouse_event"
    /\ ~last.hwLog[3].ok

\* C17: with several threads in touch on the same binding and their posts
\* failing, no increment of the failure counter is lost and the switch to
\* HardwareMode is taken once: no binding takes the switch branch twice,
\* and when every call has returned and no post has ever been accepted the
\* counter is min(n, threshold) for the n failed message clicks made.
C17_AtomicBindingUpdate ==
    /\ \A b \in Bindings : escalations[b] <= 1
    /\ (AllIdle /\ \A t \in Threads : ~thread[t].succeeded)
          => \A b \in Bindings :
                postmessage_fail_count[b] = Min(failRun[b], Threshold)

\* C18: an operation on one binding (click, key press, type, snapshot), with
\* any outcome, leaves click_method and the failure counter of every other
\* binding as they were.
C18_BindingsIndependent ==
    [][\A b \in Bindings :
          b # last'.b =>
              /\ click_method'[b] = click_method[b]
              /\ postmessage_fail_count'[b] = postmessage_fail_count[b]]_vars

\* One binding has just escalated while another stands at two failures in
\* MessageMode.
C18_Witness ==
    /\ LastTouch /\ last.path = "escalate" /\ click_method[last.b] = "sendinput"
    /\ \E b \in Bindings \ {last.b} :
          click_method[b] = "postmessage" /\ postmessage_fail_count[b] = 2

\* The screen point of a client point, counted from a window origin.
FromOrigin(left, top, c) == <<left + c[1], top + c[2]>>

\* C19: the screen point a hardware click (the retry at escalation included)
\* teleports to is the clamped client point of that click taken back to
\* screen coordinates, i.e. added to the window's origin (that of its
\* rectangle or of its client area), not the raw input point.
C19_HardwareTargetIsToScreen ==
    LastHardware =>
        LET g == WindowGeometry(last.b) IN
        \/ last.hwTarget = FromOrigin(g.window_left, g.window_top, last.client)
        \/ last.hwTarget = FromOrigin(g.client_left, g.client_top, last.client)

\* The value of 0..size-1 nearest to c.
Nearest(c, size) == IF c < 0 THEN 0 ELSE IF c >= size THEN size - 1 ELSE c

\* C20: the client point a click resolves lies in [0, w) x [0, h) of the
\* window's client rectangle; for an embedded window each component of the
\* input point that is in range is kept and each one out of range becomes
\* the nearest value in range (negative -> 0, >= w -> w - 1); and the clamp
\* does so for every size >= 1 and every component.
C20_ClampedClientPoint ==
    /\ LastDelivery =>
          LET g == WindowGeometry(last.b) IN
          /\ last.client[1] \in 0..(g.client_width - 1)
          /\ last.client[2] \in 0..(g.client_height - 1)
          /\ is_embedded(last.b) =>
                last.client = <<Nearest(last.pos[1], g.client_width),
                                Nearest(last.pos[2], g.client_height)>>
          /\ Len(last.posts) > 0 => last.posts[1].lparam = Packed(last.client)
    /\ \A size \in 1..MaxClientSize, c \in (0 - MaxClientSize)..(2 * MaxClientSize) :
          /\ ClampAxis(c, size) \in 0..(size - 1)
          /\ ClampAxis(c, size) = Nearest(c, size)

\* A click on an embedded window at (-1, 9), outside the 6 x 5 client area
\* on both axes, was delivered at (0, 4).
C20_Witness ==
    /\ LastMessageClick /\ is_embedded(last.b) /\ Len(last.posts) > 0
    /\ last.pos = <<-1, 9>> /\ last.client = <<0, 4>>

\* C21: for a window that is not embedded and a screen point whose client
\* image lies inside the client rectangle (so that the clamp leaves it
\* alone), taking the client point the click resolved back to the screen
\* gives the screen point again.
C21_RoundTrip ==
    (LastDelivery /\ ~is_embedded(last.b)
       /\ \/ last.client = ToClient(last.b, last.pos, FALSE)
          \/ last.client = ToClient(last.b, last.pos, TRUE))
    => ToScreen(last.b, last.client) = last.pos

\* The last display operation was an absolute mouse input that found a
\* target display.
LastConversion == lastD.op = "send_mouse_input" /\ lastD.display # NoDisplay

Abs(n) == IF n < 0 THEN 0 - n ELSE n

\* u is round(65535 * t / size): no integer is nearer to the quotient.
IsRounded(u, t, size) == 2 * Abs(65535 * t - u * size) <= size

\* C22: each axis of the absolute injection coordinate is
\* round(65535 * (p - origin) / size) for the offset clamped into the
\* display and lies in 0..65535; point (2880, 540) on the display with
\* origin (1920, 0) and size 1920 x 1080 gives (32768, 32768).
C22_DeviceUnitsRounded ==
    LastConversion =>
        LET d == lastD.display
            tx == Max(0, Min(lastD.dx - d.left, d.width))
            ty == Max(0, Min(lastD.dy - d.top, d.height))
        IN  /\ lastD.mi[1] \in 0..65535 /\ lastD.mi[2] \in 0..65535
            /\ IsRounded(lastD.mi[1], tx, d.width)
            /\ IsRounded(lastD.mi[2], ty, d.height)
            /\ (lastD.dx = 2880 /\ lastD.dy = 540 /\ d.left = 1920 /\ d.top = 0
                  /\ d.width = 1920 /\ d.height = 1080)
                 => lastD.mi = <<32768, 32768>>

\* u is the integer part of 65535 * t / size.
IsTruncated(u, t, size) == u * size <= 65535 * t /\ 65535 * t < (u + 1) * size

\* C22 (amended): each axis of the absolute injection coordinate is
\* 65535 * (p - origin) / size, for the offset clamped into the display,
\* with the fraction dropped (int(), not round()), and lies in 0..65535;
\* point (2880, 540) on the display with origin (1920, 0) and size
\* 1920 x 1080 gives (32767, 32767).
C22_DeviceUnitsTruncated ==
    LastConversion =>
        LET d == lastD.display
            tx == Max(0, Min(lastD.dx - d.left, d.width))
            ty == Max(0, Min(lastD.dy - d.top, d.height))
        IN  /\ lastD.mi[1] \in 0..65535 /\ lastD.mi[2] \in 0..65535
            /\ IsTruncated(lastD.mi[1], tx, d.width)
            /\ IsTruncated(lastD.mi[2], ty, d.height)
            /\ (lastD.dx = 2880 /\ lastD.dy = 540 /\ d.left = 1920 /\ d.top = 0
                  /\ d.width = 1920 /\ d.height = 1080)
                 => lastD.mi = <<32767, 32767>>

\* The centre of the virtual display has been converted.
C22_Witness ==
    /\ LastConversion /\ lastD.dx = 2880 /\ lastD.dy = 540
    /\ lastD.display.left = 1920 /\ lastD.display.width = 1920
    /\ lastD.mi = <<32767, 32767>>

Primaries(displays) == {i \in 1..Len(displays) : displays[i].is_primary}

\* C23: after every refresh, whatever the OS queries return, the display
\* list holds at least one display and exactly one primary display, and
\* get_main_display does not yield None.
C23_AlwaysOnePrimary ==
    /\ Len(vdm.displays) >= 1
    /\ Cardinality(Primaries(vdm.displays)) = 1
    /\ vdm.main_display # NoDisplay

Overlap(a, b) ==
    /\ a.left < b.left + b.width /\ b.left < a.left + a.width
    /\ a.top < b.top + b.height /\ b.top < a.top + a.height

\* C24: after a refresh that found the primary display only (origin (0, 0),
\* size W x H) the list holds exactly one more display, with origin (W, 0),
\* size W x H, not primary and not attached, and it does not overlap the
\* primary; for 1920 x 1080 its origin is (1920, 0).
C24_VirtualDisplaySynthesis ==
    vdm.main_display # NoDisplay =>
        LET main == vdm.main_display IN
        /\ main.left = 0 /\ main.top = 0 /\ main.is_primary
        /\ Len(vdm.displays) = 2 /\ vdm.displays[1] = main
        /\ vdm.displays[2].left = main.width /\ vdm.displays[2].top = 0
        /\ vdm.displays[2].width = main.width
        /\ vdm.displays[2].height = main.height
        /\ ~vdm.displays[2].is_primary /\ ~vdm.displays[2].is_attached
        /\ vdm.virtual_display = vdm.displays[2]
        /\ ~Overlap(main, vdm.displays[2])
        /\ (main.width = 1920 /\ main.height = 1080) =>
              (vdm.displays[2].left = 1920 /\ vdm.displays[2].height = 1080)

\* A refresh has just rebuilt the list on a 1920 x 1080 screen.
C24_Witness ==
    /\ lastD.op = "update_displays_info" /\ lastD.ret
    /\ Len(vdm.displays) = 2 /\ vdm.displays[2].left = 1920

\* The last display operation looked up the display of a live window.
LastLookup == lastD.op = "get_window_display" /\ lastD.hwndState = "live"
LastCentre == Centre(window_rect[lastD.hwnd])
InSomeDisplay(point) ==
    \E i \in 1..Len(vdm.displays) : is_point_in_display(point, vdm.displays[i])

\* C25: the lookup of a point always returns a display, never None; when
\* the point lies in some display's rectangle the returned display's
\* half-open rectangle contains it, otherwise the primary display is
\* returned.
C25_LookupTotalAndCorrect ==
    LastLookup =>
        /\ lastD.result # NoDisplay
        /\ IF InSomeDisplay(LastCentre)
           THEN is_point_in_display(LastCentre, lastD.result)
           ELSE lastD.result.is_primary

\* C26: get_window_display decides by the centre of the window's rectangle:
\* for a live handle it returns the display that holds the centre, the
\* primary one if none does; for an invalid handle, or when the geometry
\* query raises, it returns the primary display.
C26_WindowDisplayByCentre ==
    lastD.op = "get_window_display" =>
        IF lastD.hwndState = "live"
              /\ \E i \in 1..Len(vdm.displays) :
                    is_point_in_display(LastCentre, vdm.displays[i])
        THEN \E i \in 1..Len(vdm.displays) :
                /\ vdm.displays[i] = lastD.result
                /\ is_point_in_display(LastCentre, vdm.displays[i])
        ELSE lastD.result # NoDisplay /\ lastD.result.is_primary
                /\ lastD.result = vdm.main_display

\* C27: move_window_to_display changes the moved window's rectangle only,
\* to exactly the display's rectangle; the display list, the mouse's target
\* display, every binding's window_display and the foreground window stay
\* as they were.
C27_MoveChangesWindowOnly ==
    [][(lastD' # lastD
          /\ lastD'.op \in {"move_window_to_display",
                            "move_window_to_virtual_display"})
        => /\ vdm' = vdm
           /\ independent_mouse' = independent_mouse
           /\ window_display' = window_display
           /\ is_virtual_screen' = is_virtual_screen
           /\ foreground' = foreground
           /\ \A h \in Bindings \ {lastD'.hwnd} : window_rect'[h] = window_rect[h]
           /\ window_rect'[lastD'.hwnd] =
                 IF lastD'.ret
                 THEN Rect(lastD'.display.left, lastD'.display.top,
                           lastD'.display.left + lastD'.display.width,
                           lastD'.display.top + lastD'.display.height)
                 ELSE window_rect[lastD'.hwnd]]_vars

\* A window bound while on the main display has been moved to the virtual
\* display: its binding still reports the main display.
C27_Witness ==
    /\ lastD.op = "move_window_to_display" /\ lastD.ret
    /\ ~lastD.display.is_primary
    /\ window_display[lastD.hwnd] # NoDisplay
    /\ window_display[lastD.hwnd].is_primary
    /\ DisplayForPoint(vdm, Centre(window_rect[lastD.hwnd])) = lastD.display

\* C28: activate_window runs only when the caller asks for activation
\* itself, never as a side effect of another operation such as moving a
\* window to the virtual or the main display.
C28_ActivateOnlyOnRequest ==
    lastD.activated > 0 => lastD.op = "activate_window"

\* The last input operation was a key press of a key that key_map holds,
\* with its mapped code.
LastCode == key_map[Lower(last.key)]
KeyDown(code) == Msg("WM_KEYDOWN", "key_code", code)
KeyUp(code) == Msg("WM_KEYUP", "key_code", code)

PostedChars(posts) == [i \in 1..Len(posts) |-> posts[i].lparam]
IsPrefix(s, t) == Len(s) <= Len(t) /\ s = SubSeq(t, 1, Len(s))
AllChar(posts) == \A i \in 1..Len(posts) : posts[i].msg = "WM_CHAR"

C34_RefreshIdempotent ==
    [][lastD'.again => vdm' = vdm]_vars

\* The display list has been refreshed twice in a row on a working screen.
C34_Witness ==
    /\ lastD.op = "update_displays_info" /\ lastD.again /\ lastD.ret
    /\ Len(vdm.displays) = 2 /\ vdm.displays[2].id = 1

ButtonDowns == {"WM_LBUTTONDOWN", "WM_RBUTTONDOWN"}
ButtonUpFor(down) == IF down = "WM_LBUTTONDOWN" THEN "WM_LBUTTONUP" ELSE "WM_RBUTTONUP"

\* C35: in every message click, one whose PostMessage raises part-way
\* included, a posted button-down is followed by a posted button-up of the
\* same button before the click returns.
C35_ButtonDownAlwaysReleased ==
    LastMessageClick =>
        \A i \in 1..Len(last.posts) :
            last.posts[i].msg \in ButtonDowns =>
                \E j \in (i + 1)..Len(last.posts) :
                    last.posts[j].msg = ButtonUpFor(last.posts[i].msg)

\* How often the default implementation, given the whole text, types the
\* i-th character again after type has posted it.
TypedTwice(i) == last.delegated /\ i <= Len(last.posts)

\* C36: type delivers each character of the text at most once: a character
\* posted before a PostMessage raised is not delivered again by the
\* recovery path.
C36_EachCharacterAtMostOnce ==
    last.op = "type" => \A i \in 1..Len(last.text) : ~TypedTwice(i)

\* C38: init_hwnd leaves the binding in 'postmessage' mode with its failure
\* counter as it was; the embedded flag is set exactly when the window has
\* a parent (not set when the parent query fails); window_display is the
\* display get_window_display returns after a fresh refresh;
\* is_virtual_screen is set exactly when that display is not primary; and
\* the shared mouse controller's target display is the window_display of
\* the binding that has just run init_hwnd.
C38_BindingAfterInit ==
    [][(lastD'.op = "init_hwnd" /\ lastD' # lastD) =>
        LET b == lastD'.hwnd IN
        /\ click_method'[b] = "postmessage"
        /\ postmessage_fail_count'[b] = postmessage_fail_count[b]
        /\ lastD'.embedded = (is_embedded(b) /\ ~lastD'.parentFails)
        /\ window_display'[b] =
              get_window_display(vdm', window_rect'[b], lastD'.hwndState)
        /\ window_display'[b] # NoDisplay =>
              (is_virtual_screen'[b] = ~window_display'[b].is_primary)
        /\ independent_mouse'.target_display = window_display'[b]]_vars

\* The last registry operation rebuilt the cache.
LastRefresh == lastR.op \in {"update_game_windows", "find_game_window"}
Width(w) == w.rect.right - w.rect.left
Height(w) == w.rect.bottom - w.rect.top
\* The places in the enumeration of visible top-level windows wider and
\* higher than 100.
SizedPlaces(d) ==
    {i \in 1..Len(d) : d[i].top_level /\ d[i].visible
                          /\ Width(d[i]) > 100 /\ Height(d[i]) > 100}
TitledPlaces(d) == {i \in SizedPlaces(d) : d[i].title # <<>>}

\* C31 (as stated): a refresh leaves in the cache exactly the visible
\* top-level windows whose width and height are both greater than 100.
C31_SnapshotIsSizedWindows ==
    LastRefresh =>
        CachedHandles(game_windows) =
            {lastR.desktop[i].hwnd : i \in SizedPlaces(lastR.desktop)}

\* C31 (amended): a refresh leaves in the cache exactly the visible
\* top-level windows that have a non-empty title and whose width and height
\* are both greater than 100, each once, with the metadata the OS reports;
\* an entry of the previous cache is there only if it was enumerated again.
C31_SnapshotIsTitledSizedWindows ==
    LastRefresh =>
        LET d == lastR.desktop IN
        /\ CachedHandles(game_windows) = {d[i].hwnd : i \in TitledPlaces(d)}
        /\ Len(game_windows) = Cardinality(TitledPlaces(d))
        /\ \A k \in 1..Len(game_windows) :
              \E i \in TitledPlaces(d) :
                /\ game_windows[k].hwnd = d[i].hwnd
                /\ game_windows[k].info.title = d[i].title
                /\ game_windows[k].info.class_name = d[i].class_name
                /\ game_windows[k].info.left = d[i].rect.left
                /\ game_windows[k].info.top = d[i].rect.top
                /\ game_windows[k].info.width = Width(d[i])
                /\ game_windows[k].info.height = Height(d[i])

\* A refresh on a desktop whose only titled window is 101 x 100 has dropped
\* the windows cached before.
C31_Witness ==
    /\ lastR.op = "update_game_windows" /\ lastR.desktop = DesktopC
    /\ 1 \in lastR.before /\ game_windows = <<>>

\* sub occurs in str, letter case ignored.
ContainsCI(sub, str) ==
    \E k \in 0..(Len(str) - Len(sub)) :
        \A j \in 1..Len(sub) : LowerChar(sub[j]) = LowerChar(str[k + j])
MatchCI(title, class_name) ==
    /\ ContainsCI(lastR.title_pattern, title)
    /\ lastR.hasClass => ContainsCI(lastR.class_pattern, class_name)
Least(S) == CHOOSE i \in S : \A j \in S : i <= j

\* C32: find_game_window returns the first window, in enumeration order,
\* whose title contains the title pattern and, when a class pattern is
\* given, whose class name contains it, letter case ignored; it returns 0
\* exactly when no cached window matches.
C32_FirstMatchInEnumerationOrder ==
    lastR.op = "find_game_window" =>
        LET d == lastR.desktop
            inCache == {k \in 1..Len(game_windows) :
                          MatchCI(game_windows[k].info.title,
                                  game_windows[k].info.class_name)}
            inOrder == {i \in TitledPlaces(d) : MatchCI(d[i].title, d[i].class_name)}
        IN  /\ (lastR.found = 0) <=> (inCache = {})
            /\ inCache # {} => lastR.found = game_windows[Least(inCache)].hwnd
            /\ inOrder # {} => lastR.found = d[Least(inOrder)].hwnd

\* Pattern 'GA' matches windows 2 and 1 of the desktop that lists 2 first.
C32_Witness ==
    /\ lastR.op = "find_game_window" /\ lastR.desktop = DesktopB
    /\ lastR.title_pattern = <<"G", "A">> /\ lastR.hasClass
    /\ Len(game_windows) = 2 /\ lastR.found = 2

\* The window a handle names, when it is live and visible.
LiveVisible(d, hwnd) ==
    \E i \in 1..Len(d) : d[i].hwnd = hwnd /\ d[i].visible

\* C33: get_window_info answers a cached handle from the cache without a
\* query of the OS; a handle that is not cached is queried, and the
\* metadata of a live visible window is put into the cache and returned, so
\* that the next call gets it from the cache; for a handle that is not a
\* live visible window None is returned and nothing is cached.
C33_ResolveThroughCache ==
    lastR.op = "get_window_info" =>
        LET h == lastR.hwnd
            d == lastR.desktop
            live == LiveVisible(d, h) /\ ~lastR.queryRaises
        IN  /\ lastR.hit <=> h \in lastR.before
            /\ lastR.hit =>
                  /\ ~lastR.queried
                  /\ lastR.result = << CachedInfo(game_windows, h) >>
                  /\ CachedHandles(game_windows) = lastR.before
            /\ (~lastR.hit /\ live) =>
                  /\ lastR.queried
                  /\ \E i \in 1..Len(d) :
                        /\ d[i].hwnd = h
                        /\ lastR.result[1].title = d[i].title
                        /\ lastR.result[1].width = Width(d[i])
                        /\ lastR.result[1].height = Height(d[i])
                  /\ CachedHandles(game_windows) = lastR.before \cup {h}
                  /\ CachedInfo(game_windows, h) = lastR.result[1]
            /\ (~lastR.hit /\ ~live) =>
                  /\ lastR.result = <<>>
                  /\ CachedHandles(game_windows) = lastR.before

\* Child window 5, which no enumeration visits, was queried and cached.
C33_Witness ==
    /\ lastR.op = "get_window_info" /\ lastR.hwnd = 5 /\ ~lastR.hit
    /\ lastR.result # <<>> /\ 5 \in CachedHandles(game_windows)

\* C37: every window held in the cache is wider and higher than 100.
C37_CachedWindowsAreSized ==
    \A k \in 1..Len(game_windows) :
        game_windows[k].info.width > 100 /\ game_windows[k].info.height > 100

====
